---- MODULE Spec2Model ----
(***************************************************************************)
(* termbuffer: the double-buffered character grid (Frame, Screen), its two *)
(* render strategies (redraw, redraw_diff) and the draw scope of App.      *)
(* Modelled from src/src/screen.rs and src/src/lib.rs.                     *)
(***************************************************************************)
EXTENDS Integers, Sequences, FiniteSets, TLC

\* ------------------------------------------------------------------ bounds
\* Largest small row / column count a frame is given.
MaxRows == 2
MaxCols == 2
\* Frames handed to the caller for drawing in one behaviour.
MaxFrames == 2
\* set and get calls on one frame.
MaxCalls == 2
\* Most writes a failing sink accepts before the one that fails.
MaxAccepted == 1
\* How far past 65535 the column counts of wide frames go.
WideSpan == 3

\* u16::max_value()
U16Max == 65535
\* 2^16, the modulus of `as u16`
U16Mod == 65536

\* ------------------------------------------------------------------ Color
\* enum Color: one tag per variant; r, g, b carry the channels of Rgb and are
\* 0 for the other variants.
ColorTags ==
    {"Default", "Black", "Blue", "Cyan", "LightBlack", "LightBlue",
     "LightCyan", "LightGreen", "LightMagenta", "LightRed", "LightWhite",
     "LightYellow", "Magenta", "Red", "Rgb", "White", "Yellow"}

Named(tag) == [tag |-> tag, r |-> 0, g |-> 0, b |-> 0]
Rgb(r, g, b) == [tag |-> "Rgb", r |-> r, g |-> g, b |-> b]

\* impl Default for Color
Color_default == Named("Default")

\* ------------------------------------------------------------------ Char
MkChar(glyph, fg, bg) == [glyph |-> glyph, color_fg |-> fg, color_bg |-> bg]

\* impl Default for Char
Char_default == MkChar(" ", Color_default, Color_default)

\* The cells callers write: the blank cell, the cells of the
\* two end-to-end scenarios, and the cell examples/simple.rs writes.
Chars ==
    {Char_default,
     MkChar("A", Named("Red"), Color_default),
     MkChar("B", Named("Red"), Color_default),
     MkChar("x", Rgb(10, 20, 30), Color_default),
     MkChar(".", Color_default, Named("Red"))}

\* ------------------------------------------------------- the output stream
\* One element of what render writes to the sink. Every element has the same
\* fields; the ones a kind does not use hold a filler.
Tok(t, x, y, color, glyph) ==
    [t |-> t, x |-> x, y |-> y, color |-> color, glyph |-> glyph]

\* termion::clear::All
ClearAll == Tok("clear", 0, 0, Color_default, "")
\* termion::cursor::Goto(x, y), with the two arguments in the order given
Goto(x, y) == Tok("goto", x, y, Color_default, "")
\* write!(writer, "{}", current.glyph)
Glyph(g) == Tok("glyph", 0, 0, Color_default, g)

\* The variants the match of Color::write_fg has an arm for (lines 230-246)
write_fg_arms ==
    {"Default", "Black", "Blue", "Cyan", "LightBlack", "LightBlue",
     "LightCyan", "LightGreen", "LightMagenta", "LightRed", "LightWhite",
     "LightYellow", "Magenta", "Red", "Rgb", "White", "Yellow"}

\* The variants the match of Color::write_bg has an arm for (lines 252-268)
write_bg_arms ==
    {"Default", "Black", "Blue", "Cyan", "LightBlack", "LightBlue",
     "LightCyan", "LightGreen", "LightMagenta", "LightRed", "LightWhite",
     "LightYellow", "Magenta", "Red", "Rgb", "White", "Yellow"}

\* Color::write_fg: every variant writes color::Fg of the termion colour of
\* the same name, Default writes Fg(Reset), Rgb embeds its three channels.
write_fg(color) == <<Tok("fg", 0, 0, color, "")>>

\* Color::write_bg
write_bg(color) == <<Tok("bg", 0, 0, color, "")>>

\* `n as u16`
AsU16(n) == n % U16Mod

\* `(n as u16) + 1` in u16 arithmetic. The sum overflows only for
\* n % 2^16 = 65535 (a wrap to 0 in a release build, a panic in a debug
\* build); the assert on rows and the u16 dimensions of terminal_size() keep
\* every row and column the loops visit below that.
Coord(n) == (AsU16(n) + 1) % U16Mod

\* Whether the `+ 1` of `(n as u16) + 1` overflows u16
Overflows(n) == AsU16(n) + 1 > U16Max

\* The cursor-goto redraw and redraw_diff write for the cell (row, col)
cell_goto(row, col) == Goto(Coord(row), Coord(col))

\* The ways the crate can be built: with overflow checks (a u16 overflow
\* panics) and without (it wraps).
Builds == {"debug", "release"}

\* ------------------------------------------------------------------ Frame
\* Frame::new
Frame_new(rows, cols) ==
    [rows |-> rows, cols |-> cols,
     buffer |-> [i \in 1..(rows * cols) |-> Char_default]]

\* reset without buffer.clear(): the new cells are appended to the old ones
Frame_reset_no_clear(f, rows, cols) ==
    [rows |-> rows, cols |-> cols,
     buffer |-> f.buffer \o [i \in 1..(rows * cols) |-> Char_default]]

\* Frame::reset: clear, set the dimensions, push rows * cols default cells
Frame_reset(f, rows, cols) ==
    [rows |-> rows, cols |-> cols,
     buffer |-> [i \in 1..(rows * cols) |-> Char_default]]

\* Frame::rows and Frame::columns
Frame_rows(f) == f.rows
Frame_columns(f) == f.cols

\* Frame::dims
dims(f) == <<f.rows, f.cols>>

\* check_dims with > written for >=
check_dims_off_by_one(f, row, col) ==
    IF row > f.rows THEN FALSE
    ELSE IF col > f.cols THEN FALSE
    ELSE TRUE

\* Frame::check_dims: TRUE when it returns, FALSE when it panics
check_dims(f, row, col) ==
    IF row >= f.rows THEN FALSE
    ELSE IF col >= f.cols THEN FALSE
    ELSE TRUE

\* The index without the stride of a column
Index_no_stride(f, row, col) == col + row

\* The index expression of Frame::set and Frame::get (0-based)
Index(f, row, col) == col * f.rows + row

\* Vec indexing panics on an index outside the buffer
IndexOk(f, row, col) == Index(f, row, col) < Len(f.buffer)

\* Frame::set once check_dims has returned and the index is in the buffer
Frame_set(f, row, col, ch) ==
    [f EXCEPT !.buffer = [f.buffer EXCEPT ![Index(f, row, col) + 1] = ch]]

\* Frame::get once check_dims has returned and the index is in the buffer
Frame_get(f, row, col) == f.buffer[Index(f, row, col) + 1]

\* Whether set / get at (row, col) returns rather than panics
Access(f, row, col) == check_dims(f, row, col) /\ IndexOk(f, row, col)

\* prev_row_col returning the cell one storage index before (row, col)
prev_row_col_storage(f, row, col) ==
    IF row = 0 /\ col = 0 THEN <<>>
    ELSE IF row = 0 THEN <<f.rows - 1, col - 1>>
    ELSE <<row - 1, col>>

\* prev_row_col wrapping to column cols in place of cols - 1
prev_row_col_no_wrap(f, row, col) ==
    IF row = 0 /\ col = 0 THEN <<>>
    ELSE IF col = 0 THEN <<row - 1, f.cols>>
    ELSE <<row, col - 1>>

\* Frame::prev_row_col: <<>> is None, <<r, c>> is Some((r, c))
prev_row_col(f, row, col) ==
    IF row = 0 /\ col = 0 THEN <<>>
    ELSE IF col = 0 THEN <<row - 1, f.cols - 1>>
    ELSE <<row, col - 1>>

\* ----------------------------------------------------------------- Screen
\* Screen::new: two frames of the same dimensions, both blank
Screen_new(width, height) ==
    [previous |-> Frame_new(width, height), next |-> Frame_new(width, height)]

\* What a render call leaves behind: the elements written to the sink, in
\* order, and how the call ended ("none": Ok(()), "rows": the assert on the
\* row count failed, "bounds": a get inside the loop panicked).
Wrote(out, fault) == [out |-> out, fault |-> fault]

\* The cells of `for row in 0..rows { for col in 0..cols { .. } }` in the
\* order the loops visit them: the k-th cell (from 0) is (k / cols, k % cols).
RowOf(f, k) == k \div f.cols
ColOf(f, k) == k % f.cols

\* redraw writing both colours of every cell, predecessor or not
redraw_colors_always(f, row, col, current) ==
    write_fg(current.color_fg) \o write_bg(current.color_bg)

\* The colour sequences Screen::redraw writes for the cell `current` at
\* (row, col) of frame f (lines 45-56).
redraw_colors(f, row, col, current) ==
    LET p == prev_row_col(f, row, col) IN
    IF p # <<>>
    THEN LET prev == Frame_get(f, p[1], p[2]) IN
         (IF prev.color_fg # current.color_fg
          THEN write_fg(current.color_fg) ELSE <<>>)
         \o
         (IF prev.color_bg # current.color_bg
          THEN write_bg(current.color_bg) ELSE <<>>)
    ELSE write_fg(current.color_fg) \o write_bg(current.color_bg)

\* The loop of Screen::redraw from its k-th cell on, acc being what the sink
\* holds so far.
RECURSIVE redraw_cells(_, _, _)
redraw_cells(f, k, acc) ==
    IF k >= f.rows * f.cols THEN Wrote(acc, "none")
    ELSE LET row == RowOf(f, k)
             col == ColOf(f, k)
             acc1 == Append(acc, cell_goto(row, col))
             p == prev_row_col(f, row, col)
         IN  IF ~Access(f, row, col) THEN Wrote(acc1, "bounds")
             ELSE IF p # <<>> /\ ~Access(f, p[1], p[2]) THEN Wrote(acc1, "bounds")
             ELSE LET current == Frame_get(f, row, col) IN
                  redraw_cells(f, k + 1,
                      acc1 \o redraw_colors(f, row, col, current)
                           \o <<Glyph(current.glyph)>>)

\* The assert of redraw and redraw_diff: TRUE when it passes
rows_assert(f) == f.rows < U16Max

\* Screen::redraw
redraw(prev, nxt) ==
    IF ~rows_assert(nxt) THEN Wrote(<<ClearAll>>, "rows")
    ELSE redraw_cells(nxt, 0, <<ClearAll>>)

\* The test of redraw_diff comparing the foreground alone
differs_fg(n, p) == n.color_fg # p.color_fg

\* The test of redraw_diff never skipping a cell
differs_always(n, p) == TRUE

\* The test of line 76, `if next == prev { continue }`: TRUE when the cell is
\* written
differs(n, p) == n # p

\* redraw_diff writing both colours of every changed cell, trackers ignored
diff_colors_always(n, prev_fg, prev_bg) ==
    write_fg(n.color_fg) \o write_bg(n.color_bg)

\* The colour sequences Screen::redraw_diff writes for the changed cell n
\* under the trackers prev_fg and prev_bg (lines 81-88).
diff_colors(n, prev_fg, prev_bg) ==
    (IF n.color_fg # prev_fg THEN write_fg(n.color_fg) ELSE <<>>)
    \o
    (IF n.color_bg # prev_bg THEN write_bg(n.color_bg) ELSE <<>>)

\* The loop of Screen::redraw_diff from its k-th cell on; prev_fg and prev_bg
\* are the two trackers, which take the colour of every cell written.
RECURSIVE redraw_diff_cells(_, _, _, _, _, _)
redraw_diff_cells(prev, nxt, k, prev_fg, prev_bg, acc) ==
    IF k >= nxt.rows * nxt.cols THEN Wrote(acc, "none")
    ELSE LET row == RowOf(nxt, k)
             col == ColOf(nxt, k)
         IN  IF ~Access(nxt, row, col) \/ ~Access(prev, row, col)
             THEN Wrote(acc, "bounds")
             ELSE LET n == Frame_get(nxt, row, col)
                      p == Frame_get(prev, row, col)
                  IN  IF ~differs(n, p)
                      THEN redraw_diff_cells(prev, nxt, k + 1, prev_fg, prev_bg, acc)
                      ELSE redraw_diff_cells(prev, nxt, k + 1,
                               n.color_fg, n.color_bg,
                               Append(acc, cell_goto(row, col))
                                 \o diff_colors(n, prev_fg, prev_bg)
                                 \o <<Glyph(n.glyph)>>)

\* Screen::redraw_diff
redraw_diff(prev, nxt) ==
    IF ~rows_assert(nxt) THEN Wrote(<<>>, "rows")
    ELSE redraw_diff_cells(prev, nxt, 0, Color_default, Color_default,
             write_fg(Color_default) \o write_bg(Color_default))

\* The test of render comparing cell counts in place of dimensions
needs_redraw_by_len(prev, nxt) == Len(nxt.buffer) # Len(prev.buffer)

\* The test of Screen::render: TRUE for the redraw branch
needs_redraw(prev, nxt) == dims(nxt) # dims(prev)

\* Screen::render
render(prev, nxt) ==
    IF needs_redraw(prev, nxt) THEN redraw(prev, nxt) ELSE redraw_diff(prev, nxt)

\* Screen::render against a sink that accepts `accepts` writes and fails the
\* next one: every write! is followed by `?`, so render returns the Err at
\* the first failed write ("io") and writes nothing after it. A render that
\* makes no more than `accepts` writes ends as it does on a sound sink.
fail_at(r, accepts) ==
    IF accepts < Len(r.out) THEN Wrote(SubSeq(r.out, 1, accepts), "io") ELSE r

render_to(prev, nxt, accepts) == fail_at(render(prev, nxt), accepts)

\* ---------------------------------------------------------- the terminal
\* What the terminal does with the output: clear-screen blanks every cell, a
\* cursor-goto places the cursor, a colour sequence selects the active
\* foreground / background, a glyph is stored at the cursor with the active
\* colours. grid maps the 0-based pair of a goto's coordinates to a cell.
NoColor == Named("Unset")
Term(grid, cur, fg, bg) == [grid |-> grid, cur |-> cur, fg |-> fg, bg |-> bg]

\* The terminal as a render call finds it: the cells shown so far; the cursor
\* and the active colours were left by earlier writers and are not known.
TermAt(grid) == Term(grid, <<>>, NoColor, NoColor)

TermStep(t, tok) ==
    IF tok.t = "clear"
    THEN [t EXCEPT !.grid = [c \in DOMAIN t.grid |-> Char_default]]
    ELSE IF tok.t = "goto" THEN [t EXCEPT !.cur = <<tok.x - 1, tok.y - 1>>]
    ELSE IF tok.t = "fg" THEN [t EXCEPT !.fg = tok.color]
    ELSE IF tok.t = "bg" THEN [t EXCEPT !.bg = tok.color]
    ELSE IF t.cur \in DOMAIN t.grid
         THEN [t EXCEPT !.grid[t.cur] = MkChar(tok.glyph, t.fg, t.bg), !.cur = <<>>]
         ELSE [t EXCEPT !.cur = <<>>]

\* The terminal after the elements i.. of o
RECURSIVE TermRun(_, _, _)
TermRun(t, o, i) ==
    IF i > Len(o) THEN t ELSE TermRun(TermStep(t, o[i]), o, i + 1)

\* The cells the terminal has: enough for every small frame.
TermCells == (0..(MaxRows - 1)) \X (0..(MaxCols - 1))

\* The terminal after clear::All
TermBlank == [c \in TermCells |-> Char_default]

\* ------------------------------------------------------------------ state
VARIABLES
    previous,   \* Screen.previous
    next,       \* Screen.next
    out,        \* what the latest call wrote to the sink (only render writes)
    fault,      \* "none", or the panic that ended the program
    pc,         \* "screen": Screen used directly; the draw scope of App:
                \* "idle", "drawing", "unwinding", "dead"
    last,       \* the latest call: its name, arguments and returned cell
    shown,      \* the frame the latest draw scope's render emitted
    frames,     \* next frames handed to the caller so far
    calls,      \* set and get calls on the current next frame
    renders,    \* render calls made by Drop for Draw
    display     \* the cells the terminal of the App shows

vars == <<previous, next, out, fault, pc, last, shown, frames, calls, renders,
          display>>

Call(op, row, col, ch, ret) ==
    [op |-> op, row |-> row, col |-> col, ch |-> ch, ret |-> ret]

\* ----------------------------------------------------------------- inputs
\* Small dimensions, 0 included.
SmallDims == (0..MaxRows) \X (0..MaxCols)

\* Row counts around the limit of the assert, on frames without columns (so
\* without cells); terminal_size() yields u16 values, so up to U16Max.
LimitDimsU16 == {<<U16Max - 1, 0>>, <<U16Max, 0>>}

\* The dimensions terminal_size() can report (u16, u16).
DimsU16 == SmallDims \cup LimitDimsU16

\* The dimensions Screen's own methods take (usize, usize).
DimsUsize == DimsU16 \cup {<<U16Max + 1, 0>>}

\* The positions callers pass to set / get: every in-bounds one and, for each
\* frame, some with row >= rows or col >= cols.
Positions == (0..MaxRows) \X (0..MaxCols)

\* ---------------------------------------------------------------- actions
\* prepare_next_frame without the swap
prepare_next_frame_no_swap(width, height) ==
    /\ previous' = previous
    /\ next' = Frame_reset(next, width, height)

\* Screen::prepare_next_frame: mem::swap(next, previous); next.reset(..);
\* reset(rows, cols) receives (width, height) in that order.
prepare_next_frame(width, height) ==
    /\ previous' = next
    /\ next' = Frame_reset(previous, width, height)

\* Frame::set on the next frame; a call that panics writes nothing
set(row, col, ch) ==
    IF Access(next, row, col)
    THEN next' = Frame_set(next, row, col, ch)
    ELSE next' = next

\* ---- Screen used directly (crate-internal callers)
ScreenInit ==
    \E d \in DimsUsize :
        /\ previous = Screen_new(d[1], d[2]).previous
        /\ next = Screen_new(d[1], d[2]).next
        /\ shown = Frame_new(d[1], d[2])
        /\ last = Call("new", d[1], d[2], Char_default, Char_default)
        /\ out = <<>>
        /\ fault = "none"
        /\ pc = "screen"
        /\ frames = 1
        /\ calls = 0
        /\ renders = 0
        /\ display = TermBlank

S_prepare_next_frame ==
    /\ pc = "screen" /\ fault = "none" /\ frames < MaxFrames
    /\ \E d \in DimsUsize :
        /\ prepare_next_frame(d[1], d[2])
        /\ last' = Call("prepare_next_frame", d[1], d[2], Char_default, Char_default)
    /\ frames' = frames + 1
    /\ calls' = 0
    /\ out' = <<>>
    /\ UNCHANGED <<fault, pc, shown, renders, display>>

S_set ==
    /\ pc = "screen" /\ fault = "none" /\ calls < MaxCalls
    /\ \E pos \in Positions, ch \in Chars :
        /\ set(pos[1], pos[2], ch)
        /\ fault' = IF Access(next, pos[1], pos[2]) THEN "none" ELSE "bounds"
        /\ last' = Call("set", pos[1], pos[2],
                        IF Access(next, pos[1], pos[2]) THEN ch ELSE Char_default,
                        Char_default)
    /\ calls' = calls + 1
    /\ out' = <<>>
    /\ UNCHANGED <<previous, pc, shown, frames, renders, display>>

S_get ==
    /\ pc = "screen" /\ fault = "none" /\ calls < MaxCalls
    /\ \E pos \in Positions :
        /\ fault' = IF Access(next, pos[1], pos[2]) THEN "none" ELSE "bounds"
        /\ last' = Call("get", pos[1], pos[2], Char_default,
                        IF Access(next, pos[1], pos[2])
                        THEN Frame_get(next, pos[1], pos[2]) ELSE Char_default)
    /\ calls' = calls + 1
    /\ out' = <<>>
    /\ UNCHANGED <<previous, next, pc, shown, frames, renders, display>>

S_render ==
    /\ pc = "screen" /\ fault = "none"
    /\ out' = render(previous, next).out
    /\ fault' = render(previous, next).fault
    /\ last' = Call("render", 0, 0, Char_default, Char_default)
    /\ UNCHANGED <<previous, next, pc, shown, frames, calls, renders, display>>

ScreenNext ==
    \/ S_prepare_next_frame
    \/ S_set
    \/ S_get
    \/ S_render

ScreenSpec == ScreenInit /\ [][ScreenNext]_vars

\* ---- Screen used directly on wide frames: the cursor-gotos of a full redraw
\* Dimensions with column counts around 2^16, and row counts at the limit
\* of the assert.
WideDims ==
    ((1..MaxRows) \X ((1..(MaxCols + 1)) \cup (U16Max..(U16Max + WideSpan))))
    \cup {<<U16Max - 1, 1>>, <<U16Max, 0>>}

\* Rows and columns among those the loops of redraw visit
WideRows == (0..(MaxRows - 1)) \cup {U16Max - 2}
WideColumns == (0..MaxCols) \cup ((U16Max - 1)..(U16Max + WideSpan - 1))

WideInit ==
    /\ previous = Screen_new(0, 0).previous
    /\ next = Screen_new(0, 0).next
    /\ shown = Frame_new(0, 0)
    /\ last = Call("new", 0, 0, Char_default, Char_default)
    /\ out = <<>>
    /\ fault = "none"
    /\ pc = "screen"
    /\ frames = 1
    /\ calls = 0
    /\ renders = 0
    /\ display = TermBlank

W_prepare_next_frame ==
    /\ pc = "screen" /\ fault = "none" /\ frames = 1
    /\ \E d \in WideDims :
        /\ prepare_next_frame(d[1], d[2])
        /\ last' = Call("prepare_next_frame", d[1], d[2], Char_default, Char_default)
    /\ frames' = frames + 1
    /\ calls' = 0
    /\ out' = <<>>
    /\ UNCHANGED <<fault, pc, shown, renders, display>>

\* Screen::redraw stopped by its assert on the row count
W_redraw_assert ==
    /\ pc = "screen" /\ fault = "none" /\ frames = 2
    /\ needs_redraw(previous, next) /\ ~rows_assert(next)
    /\ out' = <<ClearAll>>
    /\ fault' = "rows"
    /\ last' = Call("render", 0, 0, Char_default, Char_default)
    /\ UNCHANGED <<previous, next, pc, shown, frames, calls, renders, display>>

\* Screen::redraw at one cell (row, col) its loops visit: the write of the
\* cursor-goto of line 42. out holds that write alone. With overflow
\* checks the `+ 1` panics when it overflows; without, it wraps.
W_redraw_goto ==
    /\ pc = "screen" /\ fault = "none" /\ frames = 2
    /\ needs_redraw(previous, next) /\ rows_assert(next)
    /\ \E row \in WideRows, col \in WideColumns, build \in Builds :
        /\ check_dims(next, row, col)
        /\ last' = Call("goto", row, col, Char_default, Char_default)
        /\ IF build = "debug" /\ (Overflows(row) \/ Overflows(col))
           THEN out' = <<>> /\ fault' = "overflow"
           ELSE out' = <<cell_goto(row, col)>> /\ fault' = fault
    /\ UNCHANGED <<previous, next, pc, shown, frames, calls, renders, display>>

WideNext ==
    \/ W_prepare_next_frame
    \/ W_redraw_assert
    \/ W_redraw_goto

WideSpec == WideInit /\ [][WideNext]_vars

\* ---- App and its draw scope (src/src/lib.rs)
\* AppBuilder::build: terminal_size() gives (width, height), Screen::new
Init ==
    \E d \in DimsU16 :
        /\ previous = Screen_new(d[1], d[2]).previous
        /\ next = Screen_new(d[1], d[2]).next
        /\ shown = Frame_new(d[1], d[2])
        /\ last = Call("new", d[1], d[2], Char_default, Char_default)
        /\ out = <<>>
        /\ fault = "none"
        /\ pc = "idle"
        /\ frames = 0
        /\ calls = 0
        /\ renders = 0
        /\ display = TermBlank

\* App::draw: terminal_size().unwrap() gives (width, height), then
\* prepare_next_frame(width, height); the Draw borrows the App mutably until
\* it is dropped.
draw ==
    /\ pc = "idle" /\ frames < MaxFrames
    /\ \E d \in DimsU16 :
        /\ prepare_next_frame(d[1], d[2])
        /\ last' = Call("prepare_next_frame", d[1], d[2], Char_default, Char_default)
    /\ pc' = "drawing"
    /\ frames' = frames + 1
    /\ calls' = 0
    /\ out' = <<>>
    /\ UNCHANGED <<fault, shown, renders, display>>

\* App::draw when terminal_size() is an Err: unwrap panics before the screen
\* is touched.
draw_no_size ==
    /\ pc = "idle" /\ frames < MaxFrames
    /\ pc' = "dead"
    /\ fault' = "unwrap"
    /\ last' = Call("draw", 0, 0, Char_default, Char_default)
    /\ out' = <<>>
    /\ UNCHANGED <<previous, next, shown, frames, calls, renders, display>>

\* Frame::set through DerefMut for Draw; a panic unwinds out of the scope
Draw_set ==
    /\ pc = "drawing" /\ calls < MaxCalls
    /\ \E pos \in Positions, ch \in Chars :
        /\ set(pos[1], pos[2], ch)
        /\ fault' = IF Access(next, pos[1], pos[2]) THEN "none" ELSE "bounds"
        /\ pc' = IF Access(next, pos[1], pos[2]) THEN "drawing" ELSE "unwinding"
        /\ last' = Call("set", pos[1], pos[2],
                        IF Access(next, pos[1], pos[2]) THEN ch ELSE Char_default,
                        Char_default)
    /\ calls' = calls + 1
    /\ out' = <<>>
    /\ UNCHANGED <<previous, shown, frames, renders, display>>

\* Frame::get through Deref for Draw
Draw_get ==
    /\ pc = "drawing" /\ calls < MaxCalls
    /\ \E pos \in Positions :
        /\ fault' = IF Access(next, pos[1], pos[2]) THEN "none" ELSE "bounds"
        /\ pc' = IF Access(next, pos[1], pos[2]) THEN "drawing" ELSE "unwinding"
        /\ last' = Call("get", pos[1], pos[2], Char_default,
                        IF Access(next, pos[1], pos[2])
                        THEN Frame_get(next, pos[1], pos[2]) ELSE Char_default)
    /\ calls' = calls + 1
    /\ out' = <<>>
    /\ UNCHANGED <<previous, next, shown, frames, renders, display>>

\* Drop for Draw: render(..).unwrap(), then flush().unwrap(). It runs when
\* the scope ends and when a panic unwinds through the scope; a panic in it
\* ends the program.
Draw_drop ==
    /\ pc \in {"drawing", "unwinding"}
    /\ out' = render(previous, next).out
    /\ IF render(previous, next).fault = "none"
       THEN /\ pc' = IF pc = "drawing" THEN "idle" ELSE "dead"
            /\ shown' = next
            /\ UNCHANGED fault
       ELSE /\ pc' = "dead"
            /\ fault' = render(previous, next).fault
            /\ UNCHANGED shown
    /\ last' = Call("render", 0, 0, Char_default, Char_default)
    /\ renders' = renders + 1
    /\ display' = TermRun(TermAt(display), render(previous, next).out, 1).grid
    /\ UNCHANGED <<previous, next, frames, calls>>

\* Drop for Draw on a sink that fails at a write render makes: render
\* returns the Err and unwrap() panics on it, inside drop.
Draw_drop_err ==
    /\ pc \in {"drawing", "unwinding"}
    /\ \E r \in {render(previous, next)}, accepts \in 0..MaxAccepted :
               /\ fail_at(r, accepts).fault = "io"
               /\ out' = fail_at(r, accepts).out
               /\ display' = TermRun(TermAt(display), out', 1).grid
               /\ last' = Call("render_err", accepts, 0, Char_default, Char_default)
    /\ pc' = "dead"
    /\ fault' = "unwrap"
    /\ renders' = renders + 1
    /\ UNCHANGED <<previous, next, shown, frames, calls>>

\* Drop for Draw when render returned Ok and flush() is an Err: unwrap()
\* panics on it. The terminal has received the frame or has not.
Draw_drop_flush_err ==
    /\ pc \in {"drawing", "unwinding"}
    /\ \E r \in {render(previous, next)} :
               /\ r.fault = "none"
               /\ out' = r.out
               /\ display' \in {display, TermRun(TermAt(display), out', 1).grid}
    /\ last' = Call("flush_err", 0, 0, Char_default, Char_default)
    /\ pc' = "dead"
    /\ fault' = "unwrap"
    /\ renders' = renders + 1
    /\ UNCHANGED <<previous, next, shown, frames, calls>>

\* A build with panic = "abort": the panic ends the program, no drop runs
Draw_abort ==
    /\ pc = "unwinding"
    /\ pc' = "dead"
    /\ last' = Call("abort", 0, 0, Char_default, Char_default)
    /\ UNCHANGED <<previous, next, out, fault, shown, frames, calls, renders, display>>

Next ==
    \/ draw
    \/ draw_no_size
    \/ Draw_set
    \/ Draw_get
    \/ Draw_drop
    \/ Draw_drop_err
    \/ Draw_drop_flush_err
    \/ Draw_abort

Spec == Init /\ [][Next]_vars

\* ----------------------------------------------------- reading the output
\* The in-bounds positions of a frame, as the claims state them.
InBounds(f) == {pos \in (0..(f.rows - 1)) \X (0..(f.cols - 1)) : TRUE}

\* Row-major order on positions: rows outer, columns inner.
Before(q, pos) == q[1] < pos[1] \/ (q[1] = pos[1] /\ q[2] < pos[2])

\* The 1-based place of pos among the positions of S in row-major order.
Rank(S, pos) == Cardinality({q \in S : Before(q, pos)}) + 1

IsGoto(tok) == tok.t = "goto"
IsGlyph(tok) == tok.t = "glyph"
IsColor(tok) == tok.t \in {"fg", "bg"}
IsClear(tok) == tok.t = "clear"

Gotos(o) == SelectSeq(o, IsGoto)
Glyphs(o) == SelectSeq(o, IsGlyph)
Colors(o) == SelectSeq(o, IsColor)

\* The index in o of its i-th cursor-goto; Len(o) + 1 past the last one.
GotoAt(o, i) ==
    LET S == {j \in 1..Len(o) : IsGoto(o[j])} IN
    IF i > Cardinality(S) THEN Len(o) + 1
    ELSE CHOOSE j \in S : Cardinality({m \in S : m < j}) = i - 1

\* What o holds after its i-th cursor-goto and before the next one.
Group(o, i) == SubSeq(o, GotoAt(o, i) + 1, GotoAt(o, i + 1) - 1)

\* The positions at which next differs from previous (equal dimensions).
Changed == {pos \in InBounds(next) :
               Frame_get(next, pos[1], pos[2]) # Frame_get(previous, pos[1], pos[2])}

Rendered == last.op = "render" /\ fault = "none"
DiffRendered == Rendered /\ <<next.rows, next.cols>> = <<previous.rows, previous.cols>>
FullRendered == Rendered /\ <<next.rows, next.cols>> # <<previous.rows, previous.cols>>

\* The two reset sequences every diff redraw begins with.
Resets == <<Tok("fg", 0, 0, Named("Default"), ""), Tok("bg", 0, 0, Named("Default"), "")>>

\* ---------------------------------------------------------------- claims
\* C1: for an in-bounds (row, col), set(row, col, c) returns, after it
\* get(row, col) is c, every other in-bounds position reads what it read
\* before, and rows, cols and the buffer length are unchanged.
C1_SetThenGet ==
    [][(last'.op = "set" /\ last'.row < next.rows /\ last'.col < next.cols) =>
         /\ fault' = "none"
         /\ Frame_get(next', last'.row, last'.col) = last'.ch
         /\ \A pos \in InBounds(next) :
               pos # <<last'.row, last'.col>> =>
                   Frame_get(next', pos[1], pos[2]) = Frame_get(next, pos[1], pos[2])
         /\ next'.rows = next.rows
         /\ next'.cols = next.cols
         /\ Len(next'.buffer) = Len(next.buffer)]_vars

\* A set of a non-blank cell into a frame that has other cells has returned.
C1_Witness ==
    /\ last.op = "set" /\ fault = "none"
    /\ last.ch # Char_default
    /\ next.rows * next.cols >= 2
    /\ \E pos \in InBounds(next) :
          /\ pos # <<last.row, last.col>>
          /\ Frame_get(next, pos[1], pos[2]) # Char_default

\* C2: set and get with row >= rows or col >= cols end in the bounds fault,
\* and leave both frames (contents and dimensions) exactly as they were.
C2_OutOfBoundsFaults ==
    [][(last'.op \in {"set", "get"}
        /\ (last'.row >= next.rows \/ last'.col >= next.cols)) =>
         /\ fault' = "bounds"
         /\ next' = next
         /\ previous' = previous]_vars

\* An out-of-bounds set on a frame that has cells it could have wrapped to.
C2_Witness ==
    /\ last.op = "set" /\ fault = "bounds"
    /\ next.rows * next.cols >= 2
    /\ last.col * next.rows + last.row < Len(next.buffer)

\* C3: after prepare_next_frame(r, c), next has dimensions (r, c) and every
\* cell blank (it equals a fresh Frame(r, c)), and previous is the frame that
\* was next before the call.
C3_PrepareNextFrame ==
    [][last'.op = "prepare_next_frame" =>
         /\ next'.rows = last'.row
         /\ next'.cols = last'.col
         /\ Len(next'.buffer) = last'.row * last'.col
         /\ \A i \in 1..Len(next'.buffer) :
               next'.buffer[i] = [glyph |-> " ", color_fg |-> Named("Default"),
                                  color_bg |-> Named("Default")]
         /\ next' = Frame_new(last'.row, last'.col)
         /\ previous' = next]_vars

\* A frame was begun at a new size after a frame with drawn cells.
C3_Witness ==
    /\ last.op = "prepare_next_frame"
    /\ \E i \in 1..Len(previous.buffer) : previous.buffer[i] # Char_default
    /\ <<previous.rows, previous.cols>> # <<next.rows, next.cols>>
    /\ Len(next.buffer) > 0

\* C4: render takes the full redraw (the output starts with the clear-screen
\* sequence) exactly when the (rows, cols) pairs of next and previous differ,
\* and with equal pairs the output holds no clear-screen sequence at all.
C4_RenderChoosesByDims ==
    last.op = "render" =>
        /\ (out # <<>> /\ IsClear(out[1]))
              <=> (next.rows # previous.rows \/ next.cols # previous.cols)
        /\ (next.rows = previous.rows /\ next.cols = previous.cols)
              => \A i \in 1..Len(out) : ~IsClear(out[i])

\* Two frames of the same cell count and different shapes were rendered.
C4_Witness ==
    /\ Rendered
    /\ next.rows * next.cols = previous.rows * previous.cols
    /\ next.rows * next.cols > 0
    /\ next.rows # previous.rows
    /\ \E i \in 1..Len(next.buffer) : next.buffer[i] # Char_default

\* C5: a diff redraw of frames differing at exactly k positions writes, after
\* the two resets, exactly k cursor-gotos and k glyphs: for the i-th changed
\* position in row-major order a goto to (row+1, col+1), then colour
\* sequences only, then next's glyph there; nothing for equal cells. For
\* k = 0 the output is the two resets alone.
C5_DiffEmitsChangedCells ==
    DiffRendered =>
        LET k == Cardinality(Changed) IN
        /\ Len(out) >= 2 /\ SubSeq(out, 1, 2) = Resets
        /\ Len(Gotos(out)) = k
        /\ Len(Glyphs(out)) = k
        /\ \A i \in 1..Len(out) : ~IsClear(out[i])
        /\ k = 0 => out = Resets
        /\ k > 0 => GotoAt(out, 1) = 3
        /\ \A pos \in Changed :
              LET i == Rank(Changed, pos)
                  g == Group(out, i)
              IN  /\ out[GotoAt(out, i)] = Goto(pos[1] + 1, pos[2] + 1)
                  /\ g # <<>>
                  /\ g[Len(g)] = Glyph(Frame_get(next, pos[1], pos[2]).glyph)
                  /\ \A j \in 1..(Len(g) - 1) : IsColor(g[j])

\* A diff redraw wrote two changed cells, one of them not the origin.
C5_Witness ==
    /\ DiffRendered
    /\ Cardinality(Changed) = 2
    /\ Cardinality(InBounds(next)) > 2
    /\ \E i \in 1..Len(previous.buffer) : previous.buffer[i] # Char_default

\* C6 as stated: a diff redraw writes at most 2k colour sequences for k
\* changed cells, and nothing at all when next and previous are identical.
C6_AsStated ==
    DiffRendered =>
        /\ Len(Colors(out)) <= 2 * Cardinality(Changed)
        /\ next = previous => out = <<>>

\* C6, amended: a diff redraw writes the two initial resets and after them at
\* most 2k colour sequences for k changed cells (2 + 2k in all); when next
\* and previous are identical its output is the two resets and nothing else.
C6_ColorBound ==
    DiffRendered =>
        /\ Len(Colors(out)) <= 2 + 2 * Cardinality(Changed)
        /\ Len(out) >= 2 /\ SubSeq(out, 1, 2) = Resets
        /\ next = previous => out = Resets

\* A diff redraw of changed cells wrote more than 2k colour sequences.
C6_Witness ==
    /\ DiffRendered
    /\ Cardinality(Changed) >= 1
    /\ Len(Colors(out)) > 2 * Cardinality(Changed)

\* The case of C7: a diff redraw in which exactly one cell differs from the
\* frame rendered before, by its glyph alone.
GlyphOnlyChange(pos) ==
    /\ DiffRendered
    /\ Changed = {pos}
    /\ Frame_get(next, pos[1], pos[2]).color_fg = Frame_get(previous, pos[1], pos[2]).color_fg
    /\ Frame_get(next, pos[1], pos[2]).color_bg = Frame_get(previous, pos[1], pos[2]).color_bg

\* C7 as stated: when a cell keeps its colours from the frame rendered before
\* and only its glyph changes, the diff redraw writes one cursor-goto to the
\* cell, its glyph, and no colour sequence for the cell.
C7_AsStated ==
    \A pos \in InBounds(next) :
        GlyphOnlyChange(pos) =>
            /\ Gotos(out) = <<Goto(pos[1] + 1, pos[2] + 1)>>
            /\ Glyphs(out) = <<Glyph(Frame_get(next, pos[1], pos[2]).glyph)>>
            /\ Group(out, 1) = <<Glyph(Frame_get(next, pos[1], pos[2]).glyph)>>

\* C7, amended: in that case the diff redraw writes the two resets, one
\* cursor-goto to the cell, a foreground sequence exactly when the cell's
\* foreground is not the default colour, a background sequence exactly when
\* its background is not the default colour (the trackers start at the
\* default colour in every diff redraw, whatever the frame before held), and
\* the glyph. For (0,0) going from {'A', Red, Default} to {'B', Red, Default}:
\* goto (1,1), the Red foreground sequence, 'B'.
C7_GlyphOnlyChange ==
    \A pos \in InBounds(next) :
        GlyphOnlyChange(pos) =>
            LET n == Frame_get(next, pos[1], pos[2]) IN
            out = Resets
                  \o <<Goto(pos[1] + 1, pos[2] + 1)>>
                  \o (IF n.color_fg # Named("Default")
                      THEN <<Tok("fg", 0, 0, n.color_fg, "")>> ELSE <<>>)
                  \o (IF n.color_bg # Named("Default")
                      THEN <<Tok("bg", 0, 0, n.color_bg, "")>> ELSE <<>>)
                  \o <<Glyph(n.glyph)>>

\* The scenario of C7: (0,0) was {'A', Red, Default} in the frame rendered
\* before, is {'B', Red, Default} now at the same dimensions, and the second
\* draw scope has rendered.
C7_Witness ==
    /\ GlyphOnlyChange(<<0, 0>>)
    /\ pc = "idle" /\ renders = 2
    /\ next.rows * next.cols > 1
    /\ Frame_get(previous, 0, 0) = MkChar("A", Named("Red"), Named("Default"))
    /\ Frame_get(next, 0, 0) = MkChar("B", Named("Red"), Named("Default"))

\* C8: a full redraw writes clear-screen first, then for every cell of next
\* in row-major order a cursor-goto to (row+1, col+1), the cell's colour
\* sequences and its glyph (rows*cols gotos and glyphs); the origin cell gets
\* its foreground and its background sequence unconditionally, every other
\* cell a foreground (background) sequence exactly when that colour differs
\* from the one of the cell prev_row_col returns in the same frame.
C8_FullRedraw ==
    FullRendered =>
        /\ out # <<>> /\ out[1] = ClearAll
        /\ Len(Gotos(out)) = next.rows * next.cols
        /\ Len(Glyphs(out)) = next.rows * next.cols
        /\ next.rows * next.cols > 0 => GotoAt(out, 1) = 2
        /\ next.rows * next.cols = 0 => out = <<ClearAll>>
        /\ \A pos \in InBounds(next) :
              LET i == Rank(InBounds(next), pos)
                  cur == Frame_get(next, pos[1], pos[2])
                  pp == prev_row_col(next, pos[1], pos[2])
                  fg == IF pos = <<0, 0>> THEN TRUE
                        ELSE Frame_get(next, pp[1], pp[2]).color_fg # cur.color_fg
                  bg == IF pos = <<0, 0>> THEN TRUE
                        ELSE Frame_get(next, pp[1], pp[2]).color_bg # cur.color_bg
              IN  /\ out[GotoAt(out, i)] = Goto(pos[1] + 1, pos[2] + 1)
                  /\ Group(out, i) =
                        (IF fg THEN <<Tok("fg", 0, 0, cur.color_fg, "")>> ELSE <<>>)
                        \o (IF bg THEN <<Tok("bg", 0, 0, cur.color_bg, "")>> ELSE <<>>)
                        \o <<Glyph(cur.glyph)>>

\* A full redraw of a frame of several cells whose origin cell is
\* {'x', Rgb(10,20,30), Default}: the output carries the foreground sequence
\* with 10, 20, 30 and the background reset right after the first goto.
C8_Witness ==
    /\ FullRendered
    /\ next.rows >= 2 /\ next.cols >= 2
    /\ Frame_get(next, 0, 0) = MkChar("x", Rgb(10, 20, 30), Named("Default"))
    /\ SubSeq(out, 2, 5) = <<Goto(1, 1),
                             Tok("fg", 0, 0, [tag |-> "Rgb", r |-> 10, g |-> 20, b |-> 30], ""),
                             Tok("bg", 0, 0, Named("Default"), ""),
                             Glyph("x")>>
    /\ \E i \in 2..Len(next.buffer) : next.buffer[i] # Char_default

\* C9: draw scopes do not overlap; each makes one prepare_next_frame call when
\* it is acquired and one render call when it is released; set and get calls
\* fall between the two; so whenever a scope is open (a render is due),
\* previous is the frame the render before emitted, or the initial blank
\* frame in the first scope, and between scopes next is the frame emitted.
C9_ScopeDiscipline ==
    /\ pc \in {"idle", "drawing", "unwinding", "dead"}
    /\ pc = "idle" => (renders = frames /\ next = shown)
    /\ pc \in {"drawing", "unwinding"} => (frames = renders + 1 /\ previous = shown)
    /\ pc = "dead" => (frames = renders \/ frames = renders + 1)
    /\ last.op \in {"set", "get"} => (pc \in {"drawing", "unwinding"} /\ frames = renders + 1)
    /\ (last.op = "render" /\ fault = "none") => (renders = frames /\ shown = next)
    /\ last.op = "prepare_next_frame" => (pc = "drawing" /\ calls = 0 /\ frames = renders + 1)
    /\ (frames = 1 /\ pc = "drawing")
          => previous = Frame_new(previous.rows, previous.cols)

\* The second scope is open, cells drawn in it, and previous holds the cells
\* the first scope drew and rendered.
C9_Witness ==
    /\ pc = "drawing" /\ frames = 2 /\ renders = 1 /\ calls > 0
    /\ previous # Frame_new(previous.rows, previous.cols)
    /\ next # Frame_new(next.rows, next.cols)

\* C10 as stated: render raises the row-limit fault when next's row count is
\* 65536 or more and never when it is 65535 or less.
C10_RowLimit ==
    last.op = "render" => (fault = "rows" <=> next.rows >= 65536)

\* The size terminal_size() reported to the latest build or draw: App passes
\* (width, height), in that order, to Screen::new / prepare_next_frame, and
\* `last` holds the two arguments in that order.
ReportedWidth == last.row
ReportedHeight == last.col

\* C11 as stated: in a draw scope (and after build), with the terminal
\* reported W columns wide and H rows high, the frame's rows() is H and its
\* columns() is W.
C11_RowsAreScreenRows ==
    (pc \in {"idle", "drawing"} /\ last.op \in {"new", "prepare_next_frame"}) =>
        /\ Frame_rows(next) = ReportedHeight
        /\ Frame_columns(next) = ReportedWidth

\* C12 as stated: Color has exactly 17 values that are not true colour (the
\* default and 16 named colours) and the true-colour variant, and write_fg
\* and write_bg handle every one of them.
C12_ColorModel ==
    /\ \A i \in 1..Len(next.buffer) :
          /\ next.buffer[i].color_fg.tag \in ColorTags \cap write_fg_arms
          /\ next.buffer[i].color_bg.tag \in ColorTags \cap write_bg_arms
    /\ Cardinality(ColorTags \ {"Rgb"}) = 17
    /\ "Rgb" \in ColorTags
    /\ ColorTags \subseteq write_fg_arms
    /\ ColorTags \subseteq write_bg_arms

\* --------------------------------------------------------------- C13
\* C13: when a write to the sink fails during render, render stops at that
\* write and returns the failure: the output is the writes made before it and
\* nothing more, previous and next are unchanged, and the caller of the draw
\* scope gets the failure as an explicit failure, not as a panic. The code
\* does the first part (the `?` after every write!) and not the last:
\* Drop for Draw calls unwrap() on the Err.
C13_FailurePropagates ==
    [][last'.op = "render_err" =>
          /\ out' = SubSeq(render(previous, next).out, 1, last'.row)
          /\ last'.row < Len(render(previous, next).out)
          /\ previous' = previous /\ next' = next
          /\ fault' = fault
          /\ pc' # "dead"]_vars

\* --------------------------------------------------------------- C14
FrameInvariant(f) == Len(f.buffer) = f.rows * f.cols

\* C14: in every reachable state, after any sequence of Screen::new,
\* prepare_next_frame (any dimensions, 0 included), set and render, both
\* frames satisfy buffer.length = rows * cols.
C14_BufferLength == FrameInvariant(previous) /\ FrameInvariant(next)

\* a second frame of other dimensions than the first, one of them with no
\* cells, has been written to and rendered
C14_Witness ==
    /\ frames = MaxFrames /\ last.op = "render" /\ fault = "none"
    /\ Len(previous.buffer) # Len(next.buffer)
    /\ 0 \in {Len(previous.buffer), Len(next.buffer)}
    /\ \E i \in 1..Len(previous.buffer) \cup 1..Len(next.buffer) :
          IF i <= Len(next.buffer) THEN next.buffer[i] # Char_default
          ELSE previous.buffer[i] # Char_default

\* --------------------------------------------------------------- C15
\* The place of (row, col) in the order the loops of redraw and redraw_diff
\* visit the cells: rows outer, columns inner.
RenderOrder(f, row, col) == row * f.cols + col

\* As stated: for every in-bounds non-origin position, the cell prev_row_col
\* returns lives one storage index before it, storage being col * rows + row.
C15_AsStated ==
    \A pos \in InBounds(next) \ {<<0, 0>>} :
        LET p == prev_row_col(next, pos[1], pos[2]) IN
        /\ p # <<>>
        /\ Index(next, p[1], p[2]) = Index(next, pos[1], pos[2]) - 1

\* C15: prev_row_col(row, col) returns the predecessor of (row, col) in the
\* order the cells are rendered (row-major), not in storage order: for every
\* in-bounds non-origin position it returns an in-bounds cell whose place
\* row * cols + col is one less; for the origin it returns none.
C15_RenderOrderPredecessor ==
    /\ InBounds(next) # {} => prev_row_col(next, 0, 0) = <<>>
    /\ \A pos \in InBounds(next) \ {<<0, 0>>} :
          LET p == prev_row_col(next, pos[1], pos[2]) IN
          /\ p \in InBounds(next)
          /\ RenderOrder(next, p[1], p[2]) = RenderOrder(next, pos[1], pos[2]) - 1

\* a full redraw of a frame on which the two orders differ
C15_Witness ==
    /\ FullRendered
    /\ next.rows >= 2 /\ next.cols >= 2
    /\ \E pos \in InBounds(next) \ {<<0, 0>>} :
          LET p == prev_row_col(next, pos[1], pos[2]) IN
          Index(next, p[1], p[2]) # Index(next, pos[1], pos[2]) - 1

\* --------------------------------------------------------------- C19
\* C19: for every frame with cols >= 1 and every in-bounds position,
\* prev_row_col(0, 0) is none, prev_row_col(r, 0) for r > 0 is
\* (r - 1, cols - 1), prev_row_col(r, c) for c > 0 is (r, c - 1); every
\* position returned is in bounds, a get on it returns, and no full redraw
\* ends in a panic of a get.
C19_PrevRowColCases ==
    /\ \A pos \in InBounds(next) :
          LET r == pos[1]
              c == pos[2]
              p == prev_row_col(next, r, c)
          IN  /\ (r = 0 /\ c = 0) => p = <<>>
              /\ (r > 0 /\ c = 0) => p = <<r - 1, next.cols - 1>>
              /\ c > 0 => p = <<r, c - 1>>
              /\ p # <<>> => (p \in InBounds(next) /\ Access(next, p[1], p[2]))
    /\ last.op = "render" => fault # "bounds"

\* a full redraw of a frame with a coloured cell in column 0 of a later row,
\* whose predecessor is the last cell of the row above
C19_Witness ==
    /\ FullRendered
    /\ next.rows >= 2 /\ next.cols >= 1
    /\ \E r \in 1..(next.rows - 1) :
          /\ prev_row_col(next, r, 0) = <<r - 1, next.cols - 1>>
          /\ Frame_get(next, r, 0).color_fg # Color_default

\* --------------------------------------------------------------- C16
\* The index of the last element of kind t before the i-th element of o;
\* 0 when there is none.
LastOf(o, i, t) ==
    LET S == {j \in 1..(i - 1) : o[j].t = t} IN
    IF S = {} THEN 0 ELSE CHOOSE j \in S : \A m \in S : m <= j

\* The colour selected by the most recent sequence of kind t ("fg" or "bg")
\* before the i-th element of o
Active(o, i, t) ==
    IF LastOf(o, i, t) = 0 THEN NoColor ELSE o[LastOf(o, i, t)].color

\* The cell the i-th element of o is written at: the one of the last
\* cursor-goto before it
CellAt(o, i) ==
    IF LastOf(o, i, "goto") = 0 THEN <<>>
    ELSE <<o[LastOf(o, i, "goto")].x - 1, o[LastOf(o, i, "goto")].y - 1>>

\* C16: in a full redraw, when the glyph of a cell is written the colours
\* selected by the most recent foreground and background sequences of the
\* output so far are the cell's own foreground and background.
C16_ActiveColors ==
    FullRendered =>
        \A i \in 1..Len(out) :
            IsGlyph(out[i]) =>
                /\ CellAt(out, i) \in InBounds(next)
                /\ Active(out, i, "fg") =
                       Frame_get(next, CellAt(out, i)[1], CellAt(out, i)[2]).color_fg
                /\ Active(out, i, "bg") =
                       Frame_get(next, CellAt(out, i)[1], CellAt(out, i)[2]).color_bg

\* a full redraw that skipped the colour sequences of a cell that is not in
\* the default colours, its predecessor having the same ones, and wrote
\* those of a cell that differs from its predecessor
C16_Witness ==
    /\ FullRendered
    /\ \E pos \in InBounds(next) \ {<<0, 0>>} :
          LET p == prev_row_col(next, pos[1], pos[2])
              c == Frame_get(next, pos[1], pos[2])
          IN  /\ c.color_fg # Color_default
              /\ Frame_get(next, p[1], p[2]).color_fg = c.color_fg
              /\ Frame_get(next, p[1], p[2]).color_bg = c.color_bg
    /\ \E pos \in InBounds(next) \ {<<0, 0>>} :
          LET p == prev_row_col(next, pos[1], pos[2])
          IN  Frame_get(next, p[1], p[2]).color_fg # Frame_get(next, pos[1], pos[2]).color_fg
    /\ Len(Colors(out)) < 2 * Len(Glyphs(out))

\* --------------------------------------------------------------- C17
\* C17: the terminal being a grid that clear-screen blanks, cursor-goto
\* positions, colour sequences set active colours on and a glyph write
\* stores (glyph, active fg, active bg) at the cursor, after any sequence of
\* draw scopes from a cleared terminal the terminal cell at every in-bounds
\* (row, col) of the frame just rendered equals next.get(row, col), on the
\* diff path and on the full path.
C17_DisplayIsNext ==
    Rendered =>
        \A pos \in InBounds(next) :
            /\ pos \in DOMAIN display
            /\ display[pos] = Frame_get(next, pos[1], pos[2])

\* a second frame rendered by the diff path over a first one that was drawn
\* on: one cell changed and is rewritten, one written cell is the same in
\* both frames and is left as the terminal has it
C17_Witness ==
    /\ DiffRendered /\ renders = 2
    /\ Changed # {}
    /\ \E pos \in InBounds(next) \ Changed :
          /\ Frame_get(next, pos[1], pos[2]) # Char_default
          /\ display[pos] = Frame_get(previous, pos[1], pos[2])
    /\ Len(Glyphs(out)) = Cardinality(Changed)

====
